---- MODULE Spec2Model ----
(***************************************************************************)
(* playwright-rpa: the shared webhook notifier (scripts/utils/notify.ts),  *)
(* the site health check (scripts/02-site-health-check.ts), the price      *)
(* monitor (scripts/01-price-monitor.ts) with its appendCsv, and the form  *)
(* automation (scripts/03-form-automation.ts), as state machines.          *)
(*                                                                         *)
(* Every script is one cooperative task: a step of the model is the code   *)
(* between two suspension points (await), which JavaScript runs to         *)
(* completion.  What the browser, the file system and the webhook servers  *)
(* do is the environment: it is drawn with \E from small sets.             *)
(***************************************************************************)
EXTENDS Integers, Sequences, FiniteSets, TLC

VARIABLES
    \* ---- process ----
    pc,             \* position of the script's main task
    exited,         \* the process has terminated
    exitCode,       \* its exit code (meaningful once exited)
    uncaught,       \* an exception left the main async function (unhandled rejection)
    notifyLog,      \* payload.status of every notify() call made so far, in order
    \* ---- notify() ----
    slackEnv,       \* process.env.SLACK_WEBHOOK_URL
    discordEnv,     \* process.env.DISCORD_WEBHOOK_URL
    npc,            \* the promise notify() returned: "idle" (not called), "awaiting", "returned", "threw"
    promises,       \* per backend, the promise postWebhook returned: "none", "pending", "fulfilled", "rejected"
    net,            \* per backend, the HTTP exchange: "none", "sent", then what the server did
    requests,       \* per backend, the number of HTTP requests issued
    \* ---- the scripts' configuration and loop ----
    thresholdEnv,   \* process.env.RESPONSE_TIME_THRESHOLD / PRICE_THRESHOLD: <<>> unset, <<s>> set to s
    urlsEnv,        \* MONITOR_URLS / WATCH_URLS after split, trim and filter
    i,              \* index (from 1) of the target the for..of loop is at
    results,        \* 02: results
    reportFile,     \* 02: the content of health-report.json, <<>> while not written
    httpStatus,     \* 02: loop local
    responseTimeMs, \* 02: loop local
    errorMessage,   \* 02: loop local
    alertItems,     \* 01: alertItems
    csvFile,        \* 01: prices.csv: Null while it does not exist, else <<rows>> after the header
    price,          \* 01: loop local, the result of parsePrice
    visited,        \* 01: what happened at each target visited so far (a history, not in the code)
    \* ---- 03-form-automation.ts ----
    emailEnv,       \* process.env.GITHUB_LOGIN_EMAIL
    passwordEnv,    \* process.env.GITHUB_LOGIN_PASSWORD
    repoOwnerEnv,   \* process.env.GITHUB_REPO_OWNER
    repoNameEnv,    \* process.env.GITHUB_REPO_NAME
    dryRunEnv,      \* process.env.DRY_RUN
    steps,          \* 03: the browser operations called so far, in order (a history, not in the code)
    errMsg,         \* 03: the operation whose exception the catch block received, Null if none
    \* ---- appendCsv on the text of prices.csv ----
    csvBefore,      \* the characters of prices.csv when appendCsv was called (a history)
    csvText,        \* the characters of prices.csv, Null while it does not exist
    csvRow          \* the row the last appendCsv that returned was given (a history), Null if none

procVars == <<pc, exited, exitCode, uncaught, notifyLog>>
notifyVars == <<slackEnv, discordEnv, npc, promises, net, requests>>
configVars == <<thresholdEnv, urlsEnv>>
healthVars == <<results, reportFile, httpStatus, responseTimeMs, errorMessage>>
priceVars == <<alertItems, csvFile, price, visited>>
formEnvVars == <<emailEnv, passwordEnv, repoOwnerEnv, repoNameEnv, dryRunEnv>>
formVars == <<formEnvVars, steps, errMsg>>
csvVars == <<csvBefore, csvText, csvRow>>
scriptVars == <<configVars, i, healthVars, priceVars, formVars, csvVars>>
vars == <<procVars, notifyVars, scriptVars>>

(***************************************************************************)
(* Values                                                                  *)
(***************************************************************************)

\* process.env.X when X is not set
Undefined == "<undefined>"

\* JavaScript truthiness of a string | undefined
Truthy(s) == s # Undefined /\ s # ""

NotifyStatuses == {"success", "failure", "warning"}

Backends == {"slack", "discord"}

\* Webhook settings of the environment: unset, set to the empty string (an
\* unset secret in a workflow), a text that is no URL, and two URLs.
WebhookEnvs ==
    {Undefined, "", "not a url", "https://hooks.example/T", "http://hooks.example/T"}

\* new URL(url) succeeds (it throws TypeError: Invalid URL otherwise)
UrlParses(url) == url \in {"https://hooks.example/T", "http://hooks.example/T"}

\* What a server can do with a request that was sent to it: answer with a 2xx
\* status, answer with another status, answer with no status code, fail the
\* connection, or accept the request and never answer.
ServerOutcomes == {"2xx", "non2xx", "nostatus", "error", "silent"}

(***************************************************************************)
(* notify.ts                                                               *)
(***************************************************************************)

\* postWebhook(url, body), up to the return of the promise.  The executor runs
\* synchronously: an exception of new URL(url) rejects the promise and no
\* request is made; otherwise one request is written and ended, and the promise
\* is pending until the response callback or the 'error' listener runs.
postWebhook(url) ==
    IF UrlParses(url)
    THEN [promise |-> "pending",  net |-> "sent", requests |-> 1]
    ELSE [promise |-> "rejected", net |-> "none", requests |-> 0]

NoPost == [promise |-> "none", net |-> "none", requests |-> 0]

\* `if (slackUrl) {...} else if (discordUrl) {...}`: Discord is skipped
\* whenever Slack is configured.
DispatchElseIf(slackUrl, discordUrl) ==
    [b \in Backends |->
        IF b = "slack"
        THEN IF Truthy(slackUrl) THEN postWebhook(slackUrl) ELSE NoPost
        ELSE IF Truthy(discordUrl) /\ ~Truthy(slackUrl)
             THEN postWebhook(discordUrl) ELSE NoPost]

\* Lines 43-76: `promises` after the two `if` blocks; each backend is
\* dispatched iff its own URL is truthy.
Dispatch(slackUrl, discordUrl) ==
    [b \in Backends |->
        IF b = "slack"
        THEN IF Truthy(slackUrl) THEN postWebhook(slackUrl) ELSE NoPost
        ELSE IF Truthy(discordUrl) THEN postWebhook(discordUrl) ELSE NoPost]

\* Promise.all: rejected as soon as one promise is rejected.
PromiseAll(ps) ==
    IF \E b \in Backends : ps[b] = "rejected" THEN "threw"
    ELSE IF \E b \in Backends : ps[b] = "pending" THEN "awaiting"
    ELSE "returned"

\* await Promise.allSettled(promises): settles, always fulfilled, once no
\* promise is pending.
AllSettled(ps) ==
    IF \E b \in Backends : ps[b] = "pending" THEN "awaiting" ELSE "returned"

\* The body of notify(payload), lines 17-86, up to its first suspension: with
\* no promise it returns at once (lines 78-84), otherwise it awaits them.
NotifyCall(status) ==
    LET d == Dispatch(slackEnv, discordEnv) IN
    /\ npc = "idle"
    /\ notifyLog' = Append(notifyLog, status)
    /\ promises' = [b \in Backends |-> d[b].promise]
    /\ net' = [b \in Backends |-> d[b].net]
    /\ requests' = [b \in Backends |-> requests[b] + d[b].requests]
    /\ npc' = IF \A b \in Backends : d[b].promise = "none" THEN "returned"
              ELSE "awaiting"
    /\ UNCHANGED <<slackEnv, discordEnv>>

\* The server (or the network) decides what happens to a request in flight.
ServerActs(b) ==
    /\ net[b] = "sent"
    /\ \E o \in ServerOutcomes : net' = [net EXCEPT ![b] = o]
    /\ UNCHANGED <<procVars, scriptVars, slackEnv, discordEnv, npc, promises, requests>>

\* Lines 105-113: the response callback.
OnResponse(b) ==
    /\ net[b] \in {"2xx", "non2xx", "nostatus"}
    /\ promises[b] = "pending"
    /\ promises' = [promises EXCEPT ![b] = IF net[b] = "2xx" THEN "fulfilled" ELSE "rejected"]
    /\ UNCHANGED <<procVars, scriptVars, slackEnv, discordEnv, npc, net, requests>>

\* Line 115: req.on("error", reject).
OnError(b) ==
    /\ net[b] = "error"
    /\ promises[b] = "pending"
    /\ promises' = [promises EXCEPT ![b] = "rejected"]
    /\ UNCHANGED <<procVars, scriptVars, slackEnv, discordEnv, npc, net, requests>>

\* Line 86: the await of Promise.allSettled resumes notify, which returns.
NotifySettles ==
    /\ npc = "awaiting"
    /\ AllSettled(promises) # "awaiting"
    /\ npc' = AllSettled(promises)
    /\ UNCHANGED <<procVars, scriptVars, slackEnv, discordEnv, promises, net, requests>>

(***************************************************************************)
(* notify() called once by an arbitrary caller                             *)
(***************************************************************************)

NotifyIdle ==
    /\ npc = "idle"
    /\ promises = [b \in Backends |-> "none"]
    /\ net = [b \in Backends |-> "none"]
    /\ requests = [b \in Backends |-> 0]

\* The variables of 03-form-automation.ts in a run of another script.
FormIdle ==
    /\ emailEnv = "<undefined>"
    /\ passwordEnv = "<undefined>"
    /\ repoOwnerEnv = "<undefined>"
    /\ repoNameEnv = "<undefined>"
    /\ dryRunEnv = "<undefined>"
    /\ steps = <<>>
    /\ errMsg = <<>>

\* prices.csv as text, in a run that does not look at its characters.
CsvIdle ==
    /\ csvBefore = <<>>
    /\ csvText = <<>>
    /\ csvRow = <<>>

\* The configuration and the loop variables of 01 and 02 in a run of neither.
LoopIdle ==
    /\ thresholdEnv = <<>>
    /\ urlsEnv = <<>>
    /\ i = 1
    /\ results = <<>>
    /\ reportFile = <<>>
    /\ httpStatus = <<>>
    /\ responseTimeMs = <<>>
    /\ errorMessage = <<>>
    /\ alertItems = <<>>
    /\ csvFile = <<>>
    /\ price = <<>>
    /\ visited = <<>>

\* The variables of the scripts, for a run in which no script takes part.
ScriptIdle == LoopIdle /\ FormIdle /\ CsvIdle

InitNotify ==
    /\ pc = "caller"
    /\ exited = FALSE
    /\ exitCode = 0
    /\ uncaught = FALSE
    /\ notifyLog = <<>>
    /\ slackEnv \in WebhookEnvs
    /\ discordEnv \in WebhookEnvs
    /\ NotifyIdle
    /\ ScriptIdle

CallerNotifies ==
    /\ pc = "caller"
    /\ \E s \in NotifyStatuses : NotifyCall(s)
    /\ pc' = "called"
    /\ UNCHANGED <<exited, exitCode, uncaught, scriptVars>>

NextNotify ==
    \/ CallerNotifies
    \/ \E b \in Backends : ServerActs(b)
    \/ \E b \in Backends : OnResponse(b)
    \/ \E b \in Backends : OnError(b)
    \/ NotifySettles

SpecNotify == InitNotify /\ [][NextNotify]_vars

\* The event loop runs a callback whose event has arrived, and a server does
\* something with a request it was sent; nothing makes a silent server answer.
LiveNotify == InitNotify /\ [][NextNotify]_vars /\ WF_vars(NextNotify)

(***************************************************************************)
(* Properties of notify()                                                  *)
(***************************************************************************)

\* C4: the promise returned by notify is never rejected, whatever the payload,
\* the configured backends and their outcomes, and it is resolved only when
\* no backend's promise is pending any more.
C4_NotifyNeverRejects ==
    /\ npc # "threw"
    /\ npc = "returned" => \A b \in Backends : promises[b] # "pending"
    /\ npc = "idle" => notifyLog = <<>>

\* C4 witness: notify has returned although Slack answered with a status
\* outside 2xx and Discord's URL did not parse.
C4_Witness ==
    /\ npc = "returned"
    /\ net["slack"] = "non2xx" /\ promises["slack"] = "rejected"
    /\ discordEnv = "not a url" /\ promises["discord"] = "rejected"

\* The backend is configured: its URL is set and not empty.
Configured(b) == Truthy(IF b = "slack" THEN slackEnv ELSE discordEnv)
Parsable(b) == UrlParses(IF b = "slack" THEN slackEnv ELSE discordEnv)

\* C5 as stated: once notify is called, exactly one request has been issued to
\* every configured backend and none to the others.
C5_OnePostPerConfigured ==
    npc # "idle" =>
        \A b \in Backends : requests[b] = IF Configured(b) THEN 1 ELSE 0

\* C5 as amended: once notify is called, exactly one request has been issued
\* to every backend whose URL is configured and parses, and none to a backend
\* whose URL is unset, empty or unparsable (that dispatch fails before a
\* request is made); no request is issued before the call or repeated after
\* it; every request is out before the outcome of any is known; and a backend
\* that failed leaves its sibling's request in place.
C5_OnePostPerParsable ==
    /\ npc = "idle" => \A b \in Backends : requests[b] = 0
    /\ npc # "idle" =>
        \A b \in Backends :
            /\ requests[b] = IF Configured(b) /\ Parsable(b) THEN 1 ELSE 0
            /\ promises[b] = "none" <=> ~Configured(b)
            /\ net[b] = "none" <=> requests[b] = 0
    /\ \A b, c \in Backends :
          (promises[b] \in {"fulfilled", "rejected"} /\ Configured(c) /\ Parsable(c))
              => net[c] # "none"

\* C5 witness: both backends configured, Slack has failed with a network error
\* while the request to Discord is still in flight.
C5_Witness ==
    /\ promises["slack"] = "rejected" /\ net["slack"] = "error"
    /\ promises["discord"] = "pending" /\ net["discord"] = "sent"
    /\ requests["slack"] = 1 /\ requests["discord"] = 1

\* C6: every call of notify eventually returns.
C6_NotifyTerminates == <>(npc \in {"returned", "threw"})

(***************************************************************************)
(* JavaScript values the scripts compute with                              *)
(***************************************************************************)

\* null, and a value that is not null
Null == <<>>
Some(v) == <<v>>

\* A JavaScript number: NaN, or a decimal val.frac that is not negative, frac
\* being the digits after the point without trailing zeros.  Every comparison
\* with NaN is false.
Num(v) == [nan |-> FALSE, val |-> v, frac |-> <<>>]
NaN == [nan |-> TRUE, val |-> 0, frac |-> <<>>]

RECURSIVE FracLe(_, _)
FracLe(f, g) ==
    IF f = <<>> THEN TRUE
    ELSE IF g = <<>> THEN FALSE
    ELSE IF f[1] # g[1] THEN f[1] < g[1]
    ELSE FracLe(Tail(f), Tail(g))

JsLe(a, b) ==
    /\ ~a.nan /\ ~b.nan
    /\ a.val < b.val \/ (a.val = b.val /\ FracLe(a.frac, b.frac))
JsGt(a, b) == ~a.nan /\ ~b.nan /\ ~JsLe(a, b)
JsLt(a, b) == ~a.nan /\ ~b.nan /\ ~JsLe(b, a)

\* Strings that are converted to numbers are sequences of characters.
Digits == {"0", "1", "2", "3", "4", "5", "6", "7", "8", "9"}
DigitVal(c) ==
    CASE c = "0" -> 0 [] c = "1" -> 1 [] c = "2" -> 2 [] c = "3" -> 3 [] c = "4" -> 4
      [] c = "5" -> 5 [] c = "6" -> 6 [] c = "7" -> 7 [] c = "8" -> 8 [] c = "9" -> 9

RECURSIVE TrimStart(_)
TrimStart(s) == IF s # <<>> /\ Head(s) = " " THEN TrimStart(Tail(s)) ELSE s
RECURSIVE TrimEnd(_)
TrimEnd(s) ==
    IF s # <<>> /\ s[Len(s)] = " " THEN TrimEnd(SubSeq(s, 1, Len(s) - 1)) ELSE s
Trim(s) == TrimEnd(TrimStart(s))

RECURSIVE Decimal(_)
Decimal(s) ==
    IF s = <<>> THEN 0 ELSE 10 * Decimal(SubSeq(s, 1, Len(s) - 1)) + DigitVal(s[Len(s)])

\* The longest prefix of s made of digits.
RECURSIVE DigitPrefix(_)
DigitPrefix(s) ==
    IF s # <<>> /\ Head(s) \in Digits THEN <<Head(s)>> \o DigitPrefix(Tail(s)) ELSE <<>>

\* The digits after the point as numbers, trailing zeros dropped.
RECURSIVE Fraction(_)
Fraction(ds) ==
    IF ds = <<>> THEN <<>>
    ELSE IF ds[Len(ds)] = "0" THEN Fraction(SubSeq(ds, 1, Len(ds) - 1))
    ELSE [k \in 1..Len(ds) |-> DigitVal(ds[k])]

\* The decimal literal at the head of s, as parseFloat reads it: digits, then
\* optionally a point and digits; NaN when there is no digit.  `rest` is what
\* follows the literal.
DecimalLiteral(s) ==
    LET int == DigitPrefix(s)
        after == SubSeq(s, Len(int) + 1, Len(s))
        point == after # <<>> /\ Head(after) = "."
        fd == IF point THEN DigitPrefix(Tail(after)) ELSE <<>>
        used == Len(int) + (IF point /\ (int # <<>> \/ fd # <<>>) THEN 1 + Len(fd) ELSE 0)
    IN IF int = <<>> /\ fd = <<>>
       THEN [num |-> NaN, rest |-> s]
       ELSE [num |-> [nan |-> FALSE, val |-> Decimal(int), frac |-> Fraction(fd)],
             rest |-> SubSeq(s, used + 1, Len(s))]

\* parseFloat(s) for a string of digits and points.
parseFloat(s) == DecimalLiteral(s).num

\* Number(s) for a string of digits, points, letters and blanks: blanks around
\* the text are dropped, the empty text is 0, a decimal literal that is the
\* whole text is its value, and anything else is NaN.
Number(s) ==
    LET t == Trim(s) IN
    IF t = <<>> THEN Num(0)
    ELSE IF DecimalLiteral(t).rest = <<>> THEN DecimalLiteral(t).num
    ELSE NaN

(***************************************************************************)
(* 02-site-health-check.ts                                                 *)
(***************************************************************************)

\* The number of entries MONITOR_URLS / WATCH_URLS may hold.
MaxTargets == 2

\* The k-th URL of a list: the text "https://site.test/k".
Url(k) == <<"https://site.test/", k>>

\* The lists of up to MaxTargets different URLs, the empty list among them.
UrlLists == {[k \in 1..n |-> Url(k)] : n \in 0..MaxTargets}

\* Values of RESPONSE_TIME_THRESHOLD in the environment: unset, empty (an
\* unset workflow input), a text that is no number, a number.
ResponseTimeThresholdEnvs ==
    {Null, Some(<<>>), Some(<<"a", "b", "c">>), Some(<<"7">>)}

DefaultResponseTimeThreshold == 5000

\* Lines 26-28: Number(process.env.RESPONSE_TIME_THRESHOLD ?? 5000).
RESPONSE_TIME_THRESHOLD ==
    IF thresholdEnv = Null
    THEN Num(DefaultResponseTimeThreshold)
    ELSE Number(thresholdEnv[1])

\* Lines 50-56: the targets of the run, the sample list when none is given.
HealthTargetUrls ==
    IF Len(urlsEnv) > 0 THEN urlsEnv
    ELSE <<"https://example.com", "https://playwright.dev">>

\* Statuses a response can carry, at both ends of [200, 400), and no response
\* at all (page.goto resolved with null).
HttpStatuses == {Null, Some(199), Some(200), Some(399), Some(400)}

\* Elapsed times of a navigation: at the threshold and one above it.
ElapsedTimes ==
    IF RESPONSE_TIME_THRESHOLD.nan THEN {0, DefaultResponseTimeThreshold}
    ELSE {RESPONSE_TIME_THRESHOLD.val, RESPONSE_TIME_THRESHOLD.val + 1}

\* Lines 99-101.
Classify(status, elapsed) ==
    LET isOk == status # Null /\ status[1] >= 200 /\ status[1] < 400
        isSlow == isOk /\ JsGt(Num(elapsed), RESPONSE_TIME_THRESHOLD)
    IN IF ~isOk THEN "error" ELSE IF isSlow THEN "slow" ELSE "ok"

HealthResult(url, status, hs, rt, err, shot) ==
    [url |-> url, status |-> status, httpStatus |-> hs, responseTimeMs |-> rt,
     error |-> err, screenshotFile |-> shot]

\* An exception leaves the main async function: nothing catches it, so the
\* process ends by the unhandled rejection (exit code 1 on Node.js 15 and
\* later) without running any more of the script.
UnhandledRejection ==
    /\ pc' = "crashed"
    /\ uncaught' = TRUE
    /\ exited' = TRUE
    /\ exitCode' = 1

\* Lines 58-61: mkdirSync and chromium.launch.
HealthLaunch ==
    /\ pc = "h_launch"
    /\ \/ pc' = "h_newContext" /\ UNCHANGED <<exited, exitCode, uncaught>>
       \/ UnhandledRejection
    /\ UNCHANGED <<notifyLog, notifyVars, scriptVars>>

\* Lines 62-70: browser.newContext.
HealthNewContext ==
    /\ pc = "h_newContext"
    /\ \/ pc' = "h_newPage" /\ UNCHANGED <<exited, exitCode, uncaught>>
       \/ UnhandledRejection
    /\ UNCHANGED <<notifyLog, notifyVars, scriptVars>>

\* Lines 72-77: the loop head and context.newPage, outside the try.
HealthNewPage ==
    /\ pc = "h_newPage"
    /\ i <= Len(HealthTargetUrls)
    /\ \/ /\ pc' = "h_goto"
          /\ httpStatus' = Null
          /\ responseTimeMs' = Null
          /\ errorMessage' = Null
          /\ UNCHANGED <<exited, exitCode, uncaught>>
       \/ UnhandledRejection /\ UNCHANGED <<httpStatus, responseTimeMs, errorMessage>>
    /\ UNCHANGED <<notifyLog, notifyVars, configVars, formVars, csvVars, priceVars, i, results, reportFile>>

\* Lines 79-90: page.goto; on an exception (timeout, network error) the catch
\* block starts and runs to its own screenshot.
HealthGoto ==
    /\ pc = "h_goto"
    /\ \/ \E hs \in HttpStatuses, rt \in ElapsedTimes :
            /\ httpStatus' = hs
            /\ responseTimeMs' = Some(rt)
            /\ pc' = "h_screenshot"
            /\ UNCHANGED errorMessage
       \/ /\ errorMessage' = Some("navigation failed")
          /\ pc' = "h_errorScreenshot"
          /\ UNCHANGED <<httpStatus, responseTimeMs>>
    /\ UNCHANGED <<exited, exitCode, uncaught, notifyLog, notifyVars, configVars, formVars, csvVars, priceVars,
                   i, results, reportFile>>

\* results.push at the front of the list.
PushFront(rs, r) == <<r>> \o rs

\* results.push(r)
Push(rs, r) == Append(rs, r)

\* Lines 92-111: page.screenshot, then the classification and results.push;
\* an exception of the screenshot enters the catch block.
HealthScreenshot ==
    /\ pc = "h_screenshot"
    /\ \/ /\ results' = Push(results,
                HealthResult(HealthTargetUrls[i],
                             Classify(httpStatus, responseTimeMs[1]),
                             httpStatus, responseTimeMs, Null, Some("png")))
          /\ pc' = "h_closePage"
          /\ UNCHANGED errorMessage
       \/ /\ errorMessage' = Some("screenshot failed")
          /\ pc' = "h_errorScreenshot"
          /\ UNCHANGED results
    /\ UNCHANGED <<exited, exitCode, uncaught, notifyLog, notifyVars, configVars, formVars, csvVars, priceVars,
                   i, reportFile, httpStatus, responseTimeMs>>

\* Lines 112-134: the screenshot of the catch block, whose failure is ignored,
\* and the push of the error record.
HealthErrorScreenshot ==
    /\ pc = "h_errorScreenshot"
    /\ \E shot \in {Null, Some("png")} :
          results' = Push(results,
              HealthResult(HealthTargetUrls[i], "error", httpStatus, responseTimeMs,
                           errorMessage, shot))
    /\ pc' = "h_closePage"
    /\ UNCHANGED <<exited, exitCode, uncaught, notifyLog, notifyVars, configVars, formVars, csvVars, priceVars,
                   i, reportFile, httpStatus, responseTimeMs, errorMessage>>

\* Lines 135-138: finally { await page.close() } and the next iteration.
HealthClosePage ==
    /\ pc = "h_closePage"
    /\ \/ /\ i' = i + 1
          /\ pc' = IF i + 1 <= Len(HealthTargetUrls) THEN "h_newPage" ELSE "h_browserClose"
          /\ UNCHANGED <<exited, exitCode, uncaught>>
       \/ UnhandledRejection /\ UNCHANGED i
    /\ UNCHANGED <<notifyLog, notifyVars, configVars, formVars, csvVars, priceVars, results, reportFile,
                   httpStatus, responseTimeMs, errorMessage>>

Count(rs, st) == Cardinality({k \in 1..Len(rs) : rs[k].status = st})

\* Line 167.
HealthSeverity(rs) ==
    IF Count(rs, "error") > 0 THEN "failure"
    ELSE IF Count(rs, "slow") > 0 THEN "warning" ELSE "success"

\* Lines 140-169: browser.close, then writeFileSync, the summary and the call
\* of notify, which run without suspension.
HealthReport ==
    /\ pc = "h_browserClose"
    /\ \/ /\ reportFile' = results
          /\ NotifyCall(HealthSeverity(results))
          /\ pc' = "h_notify"
          /\ UNCHANGED <<exited, exitCode, uncaught>>
       \/ \* browser.close rejects
          /\ UnhandledRejection
          /\ UNCHANGED <<notifyLog, notifyVars, reportFile>>
       \/ \* writeFileSync throws after browser.close
          /\ UnhandledRejection
          /\ UNCHANGED <<notifyLog, notifyVars, reportFile>>
    /\ UNCHANGED <<configVars, formVars, csvVars, priceVars, i, results, httpStatus, responseTimeMs, errorMessage>>

\* `if (hasProblems) process.exit(1)`
HealthExitCodeHasProblems(rs) ==
    IF Count(rs, "error") > 0 \/ Count(rs, "slow") > 0 THEN 1 ELSE 0

\* Lines 171-177: process.exit(1) when a result is an error; otherwise the
\* function returns and the process ends with code 0.
HealthExitCode(rs) == IF Count(rs, "error") > 0 THEN 1 ELSE 0

HealthExit ==
    /\ pc = "h_notify"
    /\ npc \in {"returned", "threw"}
    /\ IF npc = "threw"
       THEN UnhandledRejection
       ELSE /\ pc' = "done"
            /\ exited' = TRUE
            /\ exitCode' = HealthExitCode(results)
            /\ UNCHANGED uncaught
    /\ UNCHANGED <<notifyLog, notifyVars, scriptVars>>

\* Webhook settings of the runs of the scripts.
ScriptWebhookEnvs == {<<Undefined, Undefined>>, <<"https://hooks.example/T", "">>}

InitHealth ==
    /\ pc = "h_launch"
    /\ exited = FALSE
    /\ exitCode = 0
    /\ uncaught = FALSE
    /\ notifyLog = <<>>
    /\ \E w \in ScriptWebhookEnvs : slackEnv = w[1] /\ discordEnv = w[2]
    /\ NotifyIdle
    /\ thresholdEnv \in ResponseTimeThresholdEnvs
    /\ urlsEnv \in UrlLists
    /\ i = 1
    /\ results = <<>>
    /\ reportFile = <<>>
    /\ httpStatus = Null
    /\ responseTimeMs = Null
    /\ errorMessage = Null
    /\ alertItems = <<>>
    /\ csvFile = Null
    /\ price = Null
    /\ visited = <<>>
    /\ FormIdle
    /\ CsvIdle

NextHealth ==
    \/ HealthLaunch
    \/ HealthNewContext
    \/ HealthNewPage
    \/ HealthGoto
    \/ HealthScreenshot
    \/ HealthErrorScreenshot
    \/ HealthClosePage
    \/ HealthReport
    \/ \E b \in Backends : ServerActs(b)
    \/ \E b \in Backends : OnResponse(b)
    \/ \E b \in Backends : OnError(b)
    \/ NotifySettles
    \/ HealthExit

SpecHealth == InitHealth /\ [][NextHealth]_vars

(***************************************************************************)
(* Properties of the health check                                          *)
(***************************************************************************)

HealthInLoopBody == pc \in {"h_newPage", "h_goto", "h_screenshot", "h_errorScreenshot"}
HealthLoopEnded == pc \in {"h_browserClose", "h_notify", "done"}

\* C1: while the loop runs, the targets before the current one have exactly
\* one record each, in target order; when the loop has ended, results holds
\* exactly one record per target, results[k].url = targets[k].
C1_OneRecordPerTarget ==
    /\ \A k \in 1..Len(results) :
          k <= Len(HealthTargetUrls) /\ results[k].url = HealthTargetUrls[k]
    /\ HealthInLoopBody => Len(results) = i - 1
    /\ pc = "h_closePage" => Len(results) = i
    /\ HealthLoopEnded => Len(results) = Len(HealthTargetUrls)

\* C1 witness: the loop has ended; the first target failed in the screenshot
\* of the success path and again in the screenshot of the catch block, the
\* second timed out, and both have their record.
C1_Witness ==
    /\ HealthLoopEnded
    /\ Len(results) = 2
    /\ results[1].error = Some("screenshot failed") /\ results[1].screenshotFile = Null
    /\ results[2].error = Some("navigation failed") /\ results[2].status = "error"

\* C2: a run that reaches the summary notifies 'failure' iff a result is an
\* error, 'warning' iff none is an error and one is slow, 'success' otherwise,
\* and then exits with code 1 iff a result is an error and with code 0
\* otherwise; so the exit code is not 0 exactly when the severity is 'failure'.
C2_AggregateOutcome ==
    LET errorCount == Cardinality({k \in 1..Len(results) : results[k].status = "error"})
        slowCount == Cardinality({k \in 1..Len(results) : results[k].status = "slow"})
    IN /\ pc \in {"h_notify", "done"} =>
            /\ Len(notifyLog) = 1
            /\ notifyLog[1] = "failure" <=> errorCount > 0
            /\ notifyLog[1] = "warning" <=> (errorCount = 0 /\ slowCount > 0)
            /\ notifyLog[1] = "success" <=> (errorCount = 0 /\ slowCount = 0)
       /\ pc = "done" =>
            /\ exited
            /\ exitCode = 1 <=> errorCount > 0
            /\ exitCode = 0 <=> errorCount = 0
            /\ exitCode # 0 <=> notifyLog[1] = "failure"
       /\ (exited /\ exitCode = 0) => errorCount = 0

\* C2 witness: a run whose only problem is a slow target has ended with code 0
\* after a 'warning'.
C2_Witness ==
    /\ pc = "done" /\ exited /\ exitCode = 0
    /\ notifyLog = <<"warning">>
    /\ \E k \in 1..Len(results) : results[k].status = "slow"

\* C7: an exception that leaves the per-target scope is caught at the top
\* level: the run notifies 'failure' and exits with a code other than 0.
C7_TopLevelCatch ==
    uncaught =>
        /\ exited /\ exitCode # 0
        /\ Len(notifyLog) > 0 /\ notifyLog[Len(notifyLog)] = "failure"

\* The threshold RESPONSE_TIME_THRESHOLD is documented to have: the number the
\* value denotes, and 5000 when the value is unset, empty or no number.
DocumentedResponseTimeThreshold ==
    IF thresholdEnv = Null \/ Trim(thresholdEnv[1]) = <<>> \/ Number(thresholdEnv[1]).nan
    THEN DefaultResponseTimeThreshold
    ELSE Number(thresholdEnv[1]).val

\* C8: the effective threshold is the parsed number, or the default when the
\* value is absent or invalid; no target is classified against NaN or against
\* the 0 of an empty value.
C8_ThresholdDefaults ==
    \A k \in 1..Len(results) :
        results[k].error = Null =>
            /\ ~RESPONSE_TIME_THRESHOLD.nan
            /\ RESPONSE_TIME_THRESHOLD.val = DocumentedResponseTimeThreshold

\* C9: a target whose navigation and screenshot succeeded is 'error' when its
\* HTTP status is null or outside [200, 400), otherwise 'slow' iff
\* responseTimeMs > threshold and 'ok' iff responseTimeMs <= threshold.
C9_Classification ==
    \A k \in 1..Len(results) :
        results[k].error = Null =>
            LET r == results[k]
                inRange == r.httpStatus # Null /\ r.httpStatus[1] >= 200 /\ r.httpStatus[1] < 400
                rt == Num(r.responseTimeMs[1])
            IN /\ r.status = "error" <=> ~inRange
               /\ inRange => (r.status = "slow" <=> JsGt(rt, RESPONSE_TIME_THRESHOLD))
               /\ inRange => (r.status = "ok" <=> JsLe(rt, RESPONSE_TIME_THRESHOLD))

\* The same statement for the runs whose threshold is a number.
C9_ClassificationNumeric == ~RESPONSE_TIME_THRESHOLD.nan => C9_Classification

(***************************************************************************)
(* 01-price-monitor.ts                                                     *)
(***************************************************************************)

\* Values of PRICE_THRESHOLD in the environment: unset, empty, a text that is
\* no number, and two numbers.
PriceThresholdEnvs ==
    {Null, Some(<<>>), Some(<<"a", "b", "c">>), Some(<<"7">>), Some(<<"0">>)}

\* Lines 30-32: process.env.PRICE_THRESHOLD ? Number(...) : null.
PRICE_THRESHOLD ==
    IF thresholdEnv # Null /\ thresholdEnv[1] # <<>>
    THEN Some(Number(thresholdEnv[1]))
    ELSE Null

\* Lines 60-63.
PriceTargetUrls ==
    IF Len(urlsEnv) > 0 THEN urlsEnv
    ELSE <<"https://books.toscrape.com/catalogue/a-light-in-the-attic_1000/index.html">>

\* [^\d.]
KeptByParsePrice(c) == c \in Digits \cup {"."}

\* Lines 41-45.
parsePrice(raw) ==
    LET cleaned == SelectSeq(raw, KeptByParsePrice)
        num == parseFloat(cleaned)
    IN IF num.nan THEN Null ELSE Some(num)

\* Texts of the price element: none (no element, or an empty one), "¥7.0",
\* "7.5", "¥1,980", "0" and a text without a digit.
PriceTexts ==
    { <<>>,
      <<"¥", "7", ".", "0">>,
      <<"7", ".", "5">>,
      <<"¥", "1", ",", "9", "8", "0">>,
      <<"0">>,
      <<"s", "o", "l", "d">> }

ProductName == "A Light in the Attic"

\* Lines 48-54, the file after appendCsv(row) has run to its end: the header
\* is written first when the file does not exist, then the row is appended.
appendCsv(file, row) ==
    IF file = Null THEN Some(<<row>>) ELSE Some(Append(file[1], row))

\* The file after an appendCsv that threw: untouched, or created with its
\* header when the exception came from appendFileSync.
AppendCsvFailures(file) == {file} \cup (IF file = Null THEN {Some(<<>>)} ELSE {})

\* `price < PRICE_THRESHOLD`
PriceAlertsStrict(p) ==
    p # Null /\ PRICE_THRESHOLD # Null /\ JsLt(p[1], PRICE_THRESHOLD[1])

\* Line 110.
PriceAlerts(p) ==
    p # Null /\ PRICE_THRESHOLD # Null /\ JsLe(p[1], PRICE_THRESHOLD[1])

Visit(nav, p, done) == [nav |-> nav, price |-> p, done |-> done]

\* Lines 113-118: the catch block, entered with the exception of a step of the
\* try block.  Its appendCsv can throw too: then finally closes the page and
\* the exception leaves the loop.
PriceCatch(nav, p) ==
    /\ visited' = Append(visited, Visit(nav, p, FALSE))
    /\ \/ /\ csvFile' = appendCsv(csvFile, <<PriceTargetUrls[i], "ERROR", "N/A">>)
          /\ pc' = "p_closePage"
       \/ /\ csvFile' \in AppendCsvFailures(csvFile)
          /\ pc' = "p_closePageRethrow"

PriceLaunch ==
    /\ pc = "p_launch"
    /\ \/ pc' = "p_newContext" /\ UNCHANGED <<exited, exitCode, uncaught>>
       \/ UnhandledRejection
    /\ UNCHANGED <<notifyLog, notifyVars, scriptVars>>

PriceNewContext ==
    /\ pc = "p_newContext"
    /\ \/ pc' = "p_newPage" /\ UNCHANGED <<exited, exitCode, uncaught>>
       \/ UnhandledRejection
    /\ UNCHANGED <<notifyLog, notifyVars, scriptVars>>

\* Lines 80-81: context.newPage, outside the try.
PriceNewPage ==
    /\ pc = "p_newPage"
    /\ i <= Len(PriceTargetUrls)
    /\ \/ /\ pc' = "p_goto"
          /\ price' = Null
          /\ UNCHANGED <<exited, exitCode, uncaught>>
       \/ UnhandledRejection /\ UNCHANGED price
    /\ UNCHANGED <<notifyLog, notifyVars, configVars, formVars, csvVars, i, healthVars, alertItems, csvFile, visited>>

\* Lines 82-84: page.goto.
PriceGoto ==
    /\ pc = "p_goto"
    /\ \/ pc' = "p_extract" /\ UNCHANGED <<csvFile, visited>>
       \/ PriceCatch(FALSE, Null)
    /\ UNCHANGED <<exited, exitCode, uncaught, notifyLog, notifyVars, configVars, formVars, csvVars, i,
                   healthVars, alertItems, price>>

\* Lines 86-97: the name and the price are read from the page (four awaited
\* calls, any of which can throw), and the price text is parsed.
PriceExtract ==
    /\ pc = "p_extract"
    /\ \/ /\ \E raw \in PriceTexts : price' = parsePrice(Trim(raw))
          /\ pc' = "p_screenshot"
          /\ UNCHANGED <<csvFile, visited>>
       \/ PriceCatch(TRUE, Null) /\ UNCHANGED price
    /\ UNCHANGED <<exited, exitCode, uncaught, notifyLog, notifyVars, configVars, formVars, csvVars, i,
                   healthVars, alertItems>>

\* Lines 99-112: page.screenshot, then appendCsv and the threshold check.
PriceScreenshot ==
    /\ pc = "p_screenshot"
    /\ \/ /\ csvFile' = appendCsv(csvFile, <<PriceTargetUrls[i], ProductName, price>>)
          /\ alertItems' =
                IF PriceAlerts(price)
                THEN Append(alertItems,
                        [name |-> ProductName, price |-> price[1], url |-> PriceTargetUrls[i]])
                ELSE alertItems
          /\ visited' = Append(visited, Visit(TRUE, price, TRUE))
          /\ pc' = "p_closePage"
       \/ \* the screenshot failed
          PriceCatch(TRUE, price) /\ UNCHANGED alertItems
       \/ \* appendCsv threw
          /\ \E f \in AppendCsvFailures(csvFile) :
                /\ visited' = Append(visited, Visit(TRUE, price, FALSE))
                /\ \/ /\ csvFile' = appendCsv(f, <<PriceTargetUrls[i], "ERROR", "N/A">>)
                      /\ pc' = "p_closePage"
                   \/ /\ csvFile' \in AppendCsvFailures(f)
                      /\ pc' = "p_closePageRethrow"
          /\ UNCHANGED alertItems
    /\ UNCHANGED <<exited, exitCode, uncaught, notifyLog, notifyVars, configVars, formVars, csvVars, i,
                   healthVars, price>>

\* Lines 116-119: finally { await page.close() } and the next iteration.
PriceClosePage ==
    /\ pc = "p_closePage"
    /\ \/ /\ i' = i + 1
          /\ pc' = IF i + 1 <= Len(PriceTargetUrls) THEN "p_newPage" ELSE "p_browserClose"
          /\ UNCHANGED <<exited, exitCode, uncaught>>
       \/ UnhandledRejection /\ UNCHANGED i
    /\ UNCHANGED <<notifyLog, notifyVars, configVars, formVars, csvVars, healthVars, priceVars>>

\* finally after an exception of the catch block: the page is closed and the
\* exception leaves the main function.
PriceClosePageRethrow ==
    /\ pc = "p_closePageRethrow"
    /\ UnhandledRejection
    /\ UNCHANGED <<notifyLog, notifyVars, scriptVars>>

\* Lines 124-142: 'warning' when an item alerts, 'success' otherwise.
PriceSeverity(items) == IF Len(items) > 0 THEN "warning" ELSE "success"

\* Lines 121-142: browser.close, then the call of notify.
PriceReport ==
    /\ pc = "p_browserClose"
    /\ \/ /\ NotifyCall(PriceSeverity(alertItems))
          /\ pc' = "p_notify"
          /\ UNCHANGED <<exited, exitCode, uncaught>>
       \/ UnhandledRejection /\ UNCHANGED <<notifyLog, notifyVars>>
    /\ UNCHANGED scriptVars

\* Lines 144-145: the main function returns; the process ends with code 0.
PriceExit ==
    /\ pc = "p_notify"
    /\ npc \in {"returned", "threw"}
    /\ IF npc = "threw"
       THEN UnhandledRejection
       ELSE /\ pc' = "done"
            /\ exited' = TRUE
            /\ exitCode' = 0
            /\ UNCHANGED uncaught
    /\ UNCHANGED <<notifyLog, notifyVars, scriptVars>>

InitPrice ==
    /\ pc = "p_launch"
    /\ exited = FALSE
    /\ exitCode = 0
    /\ uncaught = FALSE
    /\ notifyLog = <<>>
    /\ \E w \in ScriptWebhookEnvs : slackEnv = w[1] /\ discordEnv = w[2]
    /\ NotifyIdle
    /\ thresholdEnv \in PriceThresholdEnvs
    /\ urlsEnv \in UrlLists
    /\ i = 1
    /\ results = <<>>
    /\ reportFile = <<>>
    /\ httpStatus = Null
    /\ responseTimeMs = Null
    /\ errorMessage = Null
    /\ alertItems = <<>>
    /\ csvFile \in {Null, Some(<<>>)}
    /\ price = Null
    /\ visited = <<>>
    /\ FormIdle
    /\ CsvIdle

NextPrice ==
    \/ PriceLaunch
    \/ PriceNewContext
    \/ PriceNewPage
    \/ PriceGoto
    \/ PriceExtract
    \/ PriceScreenshot
    \/ PriceClosePage
    \/ PriceClosePageRethrow
    \/ PriceReport
    \/ \E b \in Backends : ServerActs(b)
    \/ \E b \in Backends : OnResponse(b)
    \/ \E b \in Backends : OnError(b)
    \/ NotifySettles
    \/ PriceExit

SpecPrice == InitPrice /\ [][NextPrice]_vars

(***************************************************************************)
(* Properties of the price monitor                                         *)
(***************************************************************************)

\* The k-th target has an entry in the alert list.
Alerted(k) == \E j \in 1..Len(alertItems) : alertItems[j].url = PriceTargetUrls[k]

\* C3: a run in which a target ended in the per-target catch terminates with
\* an exit code other than 0; only runs without such a target exit with 0.
C3_PriceExitContract ==
    (exited /\ \E k \in 1..Len(visited) : ~visited[k].done) => exitCode # 0

FormEnvs == {Undefined, "", "octo"}

\* Values of DRY_RUN in the environment.
DryRunEnvs == {Undefined, "", "true", "TRUE", "1", "false"}

\* `process.env.X ?? ""`
OrEmpty(v) == IF v = Undefined THEN "" ELSE v

\* Lines 30-33.
EMAIL == OrEmpty(emailEnv)
PASSWORD == OrEmpty(passwordEnv)
REPO_OWNER == OrEmpty(repoOwnerEnv)
REPO_NAME == OrEmpty(repoNameEnv)

\* `process.env.DRY_RUN`, when it is set to any text that is not empty.
DryRunTruthy == Truthy(dryRunEnv)

\* Line 39: process.env.DRY_RUN === "true".
DRY_RUN == dryRunEnv = "true"

\* Lines 50-54: the names pushed, in the order of the four tests.
missingVars ==
    (IF EMAIL = "" THEN <<"GITHUB_LOGIN_EMAIL">> ELSE <<>>)
    \o (IF PASSWORD = "" THEN <<"GITHUB_LOGIN_PASSWORD">> ELSE <<>>)
    \o (IF REPO_OWNER = "" THEN <<"GITHUB_REPO_OWNER">> ELSE <<>>)
    \o (IF REPO_NAME = "" THEN <<"GITHUB_REPO_NAME">> ELSE <<>>)

\* The variables a browser operation of 03 leaves alone.
FormFrame == <<exited, exitCode, uncaught, configVars, i, healthVars, priceVars, csvVars, formEnvVars>>

\* Lines 47-72, which run without suspension: mkdirSync, the test of the
\* required settings and, when one is missing, the call of notify.
FormCheck ==
    /\ pc = "f_start"
    /\ \/ \* mkdirSync throws
          /\ UnhandledRejection
          /\ UNCHANGED <<notifyLog, notifyVars>>
       \/ /\ Len(missingVars) > 0
          /\ NotifyCall("warning")
          /\ pc' = "f_skipNotify"
          /\ UNCHANGED <<exited, exitCode, uncaught>>
       \/ /\ ~(Len(missingVars) > 0)
          /\ pc' = "f_launch"
          /\ UNCHANGED <<exited, exitCode, uncaught, notifyLog, notifyVars>>
    /\ UNCHANGED scriptVars

\* Line 66, without the process.exit(0): the function goes on to line 72.
FormSkipContinues ==
    /\ pc' = "f_launch"
    /\ UNCHANGED <<exited, exitCode, uncaught>>

\* Line 66: process.exit(0).
FormSkipExits ==
    /\ pc' = "f_skipped"
    /\ exited' = TRUE
    /\ exitCode' = 0
    /\ UNCHANGED uncaught

\* Lines 61-66: notify has settled; the skip ends the process.
FormSkipExit ==
    /\ pc = "f_skipNotify"
    /\ npc \in {"returned", "threw"}
    /\ IF npc = "threw" THEN UnhandledRejection ELSE FormSkipExits
    /\ UNCHANGED <<notifyLog, notifyVars, scriptVars>>

\* A browser operation called before the try (lines 72-81): its exception
\* leaves the main function.
FormSetup(at, op, next) ==
    /\ pc = at
    /\ steps' = Append(steps, op)
    /\ \/ pc' = next /\ UNCHANGED <<exited, exitCode, uncaught>>
       \/ UnhandledRejection
    /\ UNCHANGED <<notifyLog, notifyVars, configVars, i, healthVars, priceVars, csvVars,
                   formEnvVars, errMsg>>

FormLaunch == FormSetup("f_launch", "launch", "f_newContext")
FormNewContext == FormSetup("f_newContext", "newContext", "f_newPage")
FormNewPage == FormSetup("f_newPage", "newPage", "f_gotoLogin")

\* A browser operation awaited inside the try (lines 83-175) that is followed
\* by another one: its exception enters the catch block.
FormCall(at, op, next) ==
    /\ pc = at
    /\ steps' = Append(steps, op)
    /\ \/ pc' = next /\ UNCHANGED errMsg
       \/ pc' = "f_catch" /\ errMsg' = Some(op)
    /\ UNCHANGED <<notifyLog, notifyVars, FormFrame>>

\* A browser operation awaited inside the try after which the code chooses
\* what to do: `then` is that choice.
FormCallThen(at, op, then) ==
    /\ pc = at
    /\ steps' = Append(steps, op)
    /\ \/ then /\ UNCHANGED errMsg
       \/ pc' = "f_catch" /\ errMsg' = Some(op) /\ UNCHANGED <<notifyLog, notifyVars>>
    /\ UNCHANGED FormFrame

\* Lines 107-110 and 168-174: with the repository known the issue form is
\* opened, otherwise the run is reported as a warning.
FormStep2 ==
    IF REPO_OWNER # "" /\ REPO_NAME # ""
    THEN pc' = "f_gotoIssue" /\ UNCHANGED <<notifyLog, notifyVars>>
    ELSE NotifyCall("warning") /\ pc' = "f_notify"

\* Lines 96-104: with the credentials known the login form is filled.
FormStep1 ==
    IF EMAIL # "" /\ PASSWORD # ""
    THEN pc' = "f_fillEmail" /\ UNCHANGED <<notifyLog, notifyVars>>
    ELSE FormStep2

\* Lines 130-167: `if (!DRY_RUN)` the form is submitted, else the dry run is
\* reported as a warning.
FormStep4 ==
    IF ~DRY_RUN
    THEN pc' = "f_clickSubmit" /\ UNCHANGED <<notifyLog, notifyVars>>
    ELSE NotifyCall("warning") /\ pc' = "f_notify"

\* Lines 86-100: Step 1.
FormGotoLogin == FormCall("f_gotoLogin", "goto_login", "f_shotBefore")
FormShotBefore == FormCallThen("f_shotBefore", "shot_before", FormStep1)
FormFillEmail == FormCall("f_fillEmail", "fill_email", "f_fillPassword")
FormFillPassword == FormCall("f_fillPassword", "fill_password", "f_clickLogin")
FormClickLogin == FormCall("f_clickLogin", "click_login", "f_waitLogin")
FormWaitLogin == FormCallThen("f_waitLogin", "wait_login", FormStep2)

\* Lines 110-126: Step 2 and Step 3.
FormGotoIssue == FormCall("f_gotoIssue", "goto_issue", "f_waitTitle")
FormWaitTitle == FormCall("f_waitTitle", "wait_title", "f_fillTitle")
FormFillTitle == FormCall("f_fillTitle", "fill_title", "f_clickBody")
FormClickBody == FormCall("f_clickBody", "click_body", "f_fillBody")
FormFillBody == FormCall("f_fillBody", "fill_body", "f_shotFilled")
FormShotFilled == FormCallThen("f_shotFilled", "shot_filled", FormStep4)

\* Lines 133-155: Step 4.
FormClickSubmit == FormCall("f_clickSubmit", "click_submit", "f_waitIssue")
FormWaitIssue == FormCall("f_waitIssue", "wait_issue", "f_shotAfter")
FormShotAfter ==
    FormCallThen("f_shotAfter", "shot_after", NotifyCall("success") /\ pc' = "f_notify")

\* Lines 176-192: the catch block up to its notify; the failure of its own
\* screenshot is ignored.
FormCatch ==
    /\ pc = "f_catch"
    /\ steps' = Append(steps, "shot_error")
    /\ NotifyCall("failure")
    /\ pc' = "f_failNotify"
    /\ UNCHANGED <<FormFrame, errMsg>>

\* Line 194: process.exit(1); the finally block does not run.
FormFailExit ==
    /\ pc = "f_failNotify"
    /\ npc = "returned"
    /\ pc' = "f_failed"
    /\ exited' = TRUE
    /\ exitCode' = 1
    /\ UNCHANGED <<uncaught, notifyLog, notifyVars, scriptVars>>

\* Lines 195-200: after the notify of the try, the finally block closes the
\* browser and the function returns.
FormFinally ==
    /\ pc = "f_notify"
    /\ npc = "returned"
    /\ steps' = Append(steps, "close")
    /\ \/ /\ pc' = "done"
          /\ exited' = TRUE
          /\ exitCode' = 0
          /\ UNCHANGED uncaught
       \/ UnhandledRejection
    /\ UNCHANGED <<notifyLog, notifyVars, configVars, i, healthVars, priceVars, csvVars,
                   formEnvVars, errMsg>>

InitForm ==
    /\ pc = "f_start"
    /\ exited = FALSE
    /\ exitCode = 0
    /\ uncaught = FALSE
    /\ notifyLog = <<>>
    /\ \E w \in ScriptWebhookEnvs : slackEnv = w[1] /\ discordEnv = w[2]
    /\ NotifyIdle
    /\ thresholdEnv = Null
    /\ urlsEnv = <<>>
    /\ i = 1
    /\ results = <<>>
    /\ reportFile = <<>>
    /\ httpStatus = Null
    /\ responseTimeMs = Null
    /\ errorMessage = Null
    /\ alertItems = <<>>
    /\ csvFile = Null
    /\ price = Null
    /\ visited = <<>>
    /\ emailEnv \in FormEnvs
    /\ passwordEnv \in FormEnvs
    /\ repoOwnerEnv \in FormEnvs
    /\ repoNameEnv \in FormEnvs
    /\ dryRunEnv \in DryRunEnvs
    /\ steps = <<>>
    /\ errMsg = Null
    /\ CsvIdle

NextForm ==
    \/ FormCheck
    \/ FormSkipExit
    \/ FormLaunch
    \/ FormNewContext
    \/ FormNewPage
    \/ FormGotoLogin
    \/ FormShotBefore
    \/ FormFillEmail
    \/ FormFillPassword
    \/ FormClickLogin
    \/ FormWaitLogin
    \/ FormGotoIssue
    \/ FormWaitTitle
    \/ FormFillTitle
    \/ FormClickBody
    \/ FormFillBody
    \/ FormShotFilled
    \/ FormClickSubmit
    \/ FormWaitIssue
    \/ FormShotAfter
    \/ FormCatch
    \/ FormFailExit
    \/ FormFinally
    \/ \E b \in Backends : ServerActs(b)
    \/ \E b \in Backends : OnResponse(b)
    \/ \E b \in Backends : OnError(b)
    \/ NotifySettles

SpecForm == InitForm /\ [][NextForm]_vars

(***************************************************************************)
(* Properties of 03-form-automation.ts                                     *)
(***************************************************************************)

\* A required setting is missing: unset, or set to the empty text.
Missing(v) == v = Undefined \/ v = ""
AnyMissing ==
    Missing(emailEnv) \/ Missing(passwordEnv) \/ Missing(repoOwnerEnv) \/ Missing(repoNameEnv)

\* The skip path: the notify of line 61 and the exit of line 66.
FormSkipPath == pc \in {"f_skipNotify", "f_skipped"}

\* C11: when one of the four required settings is missing or empty, a run
\* whose test of the settings was reached (mkdirSync returned) is on the skip
\* path with exactly one notification, of severity 'warning', it ends only by
\* the exit with code 0, and no browser operation is ever called, in any state
\* of the run; when all four are set the skip path is never taken.
C11_PreconditionSkip ==
    /\ AnyMissing =>
        /\ steps = <<>>
        /\ pc \in {"f_start", "crashed", "f_skipNotify", "f_skipped"}
        /\ pc = "crashed" => notifyLog = <<>>
        /\ FormSkipPath => notifyLog = <<"warning">> /\ ~uncaught
        /\ pc = "f_skipped" <=> (exited /\ ~uncaught)
        /\ (exited /\ ~uncaught) => exitCode = 0
    /\ ~AnyMissing => ~FormSkipPath

\* C11 witness: the e-mail address is set to the empty text and the other
\* three are set; the run has posted its one warning to Slack and has ended
\* with code 0.
C11_Witness ==
    /\ emailEnv = "" /\ passwordEnv = "octo" /\ repoOwnerEnv = "octo" /\ repoNameEnv = "octo"
    /\ pc = "f_skipped" /\ exited /\ exitCode = 0
    /\ notifyLog = <<"warning">>
    /\ requests["slack"] = 1
    /\ steps = <<>>

\* The operations of Step 2 and Step 3, and those of Step 4, in their order.
FillSteps == <<"goto_issue", "wait_title", "fill_title", "click_body", "fill_body", "shot_filled">>
SubmitSteps == <<"click_submit", "wait_issue", "shot_after">>

\* The operations ops were called one after the other.
Performed(ops) ==
    \E k \in 0..(Len(steps) - Len(ops)) : SubSeq(steps, k + 1, k + Len(ops)) = ops

\* The try block has come to its notify without an exception.
FormTryCompleted == errMsg = Null /\ (pc \in {"f_notify", "done"} \/ (uncaught /\ Performed(<<"close">>)))

\* C12: with DRY_RUN set to exactly "true" the submit button is never clicked
\* and the created-issue page is never waited for, while a run whose try block
\* completes has navigated to the form, filled it, taken the 'form-filled'
\* screenshot and notified with severity 'warning'; with any other value of
\* DRY_RUN the click of the submit button is the operation that follows the
\* 'form-filled' screenshot, and a run whose try block completes has submitted
\* and notified 'success'.
C12_DryRunSafety ==
    /\ dryRunEnv = "true" =>
        /\ \A k \in 1..Len(steps) : steps[k] \notin {"click_submit", "wait_issue", "shot_after"}
        /\ pc \notin {"f_clickSubmit", "f_waitIssue", "f_shotAfter"}
        /\ (FormTryCompleted /\ ~AnyMissing) =>
              /\ Performed(FillSteps)
              /\ notifyLog = <<"warning">>
    /\ dryRunEnv # "true" =>
        /\ \A k \in 1..Len(steps) :
              (steps[k] = "shot_filled" /\ errMsg # Some("shot_filled")) =>
                  IF k = Len(steps) THEN pc = "f_clickSubmit"
                  ELSE steps[k + 1] = "click_submit"
        /\ (FormTryCompleted /\ ~AnyMissing) =>
              /\ Performed(FillSteps \o SubmitSteps)
              /\ notifyLog = <<"success">>

\* C12 witness: a dry run that has filled the form, taken the screenshot,
\* notified 'warning' and ended with code 0.
C12_Witness ==
    /\ dryRunEnv = "true"
    /\ pc = "done" /\ exited /\ exitCode = 0
    /\ Performed(FillSteps)
    /\ notifyLog = <<"warning">>

(***************************************************************************)
(* appendCsv (01-price-monitor.ts) on the characters of prices.csv         *)
(***************************************************************************)

\* The longest field and the longest row appendCsv is given.
MaxFieldLen == 1
MaxFields == 2

\* The characters of a field: a plain one, the comma, the double quote and the
\* line break.
CsvChars == {"a", ",", "\"", "\n"}

CsvFields == UNION {[1..n -> CsvChars] : n \in 0..MaxFieldLen}
CsvRows == UNION {[1..n -> CsvFields] : n \in 1..MaxFields}

\* Line 50: "timestamp,url,name,price\n".
CsvHeaderLine ==
    <<"t", "i", "m", "e", "s", "t", "a", "m", "p", ",", "u", "r", "l", ",",
      "n", "a", "m", "e", ",", "p", "r", "i", "c", "e", "\n">>

\* `v`: the field is written as it is.
KeepQuotes(v) == v

\* Line 52: v.replace(/"/g, '""').
RECURSIVE ReplaceQuotes(_)
ReplaceQuotes(v) ==
    IF v = <<>> THEN <<>>
    ELSE (IF Head(v) = "\"" THEN <<"\"", "\"">> ELSE <<Head(v)>>) \o ReplaceQuotes(Tail(v))

\* Line 52: `"${...}"`.
Quoted(v) == <<"\"">> \o ReplaceQuotes(v) \o <<"\"">>

\* Array.prototype.join
RECURSIVE Join(_, _)
Join(fs, sep) ==
    IF fs = <<>> THEN <<>>
    ELSE IF Len(fs) = 1 THEN fs[1]
    ELSE fs[1] \o sep \o Join(Tail(fs), sep)

\* Line 52: `line`.
line(row) == Join([k \in 1..Len(row) |-> Quoted(row[k])], <<",">>) \o <<"\n">>

\* Lines 49-51: the file after the test of its existence.
WithHeader(text) == IF text = Null THEN CsvHeaderLine ELSE text[1]

\* Lines 48-54 on the text of the file: the header is written when the file
\* does not exist, then the line is appended.
appendCsvText(text, row) == Some(WithHeader(text) \o line(row))

\* The text after an appendCsv that threw: as it was (writeFileSync threw, or
\* appendFileSync did on an existing file), or the header alone.
AppendCsvTextFailures(text) == {text, Some(WithHeader(text))}

\* Two rows written by earlier runs.
CsvEarlierRow == << <<"a", ",">>, <<"\"", "\n">> >>
CsvLaterRow == << <<"a">>, <<>>, <<"\n", "\"">> >>

\* prices.csv before the call: absent, just created, with a row, with two.
CsvFiles ==
    {Null,
     Some(CsvHeaderLine),
     appendCsvText(Null, CsvEarlierRow),
     appendCsvText(appendCsvText(Null, CsvEarlierRow), CsvLaterRow)}

InitCsv ==
    /\ pc = "c_call"
    /\ exited = FALSE
    /\ exitCode = 0
    /\ uncaught = FALSE
    /\ notifyLog = <<>>
    /\ slackEnv = Undefined
    /\ discordEnv = Undefined
    /\ NotifyIdle
    /\ LoopIdle
    /\ FormIdle
    /\ csvText \in CsvFiles
    /\ csvBefore = csvText
    /\ csvRow = Null

\* appendCsv(row) returns.
CsvAppend ==
    /\ pc = "c_call"
    /\ \E row \in CsvRows :
          /\ csvText' = appendCsvText(csvText, row)
          /\ csvRow' = Some(row)
    /\ pc' = "c_returned"
    /\ UNCHANGED <<exited, exitCode, uncaught, notifyLog, notifyVars, configVars, i,
                   healthVars, priceVars, formVars, csvBefore>>

\* appendCsv(row) throws (the disk is full, the file is read-only).
CsvAppendThrows ==
    /\ pc = "c_call"
    /\ csvText' \in AppendCsvTextFailures(csvText)
    /\ pc' = "c_threw"
    /\ UNCHANGED <<exited, exitCode, uncaught, notifyLog, notifyVars, configVars, i,
                   healthVars, priceVars, formVars, csvBefore, csvRow>>

NextCsv ==
    \/ CsvAppend
    \/ CsvAppendThrows

SpecCsv == InitCsv /\ [][NextCsv]_vars

\* A reader of quoted CSV: outside quotes a comma ends the field and a line
\* break ends the record; a double quote opens a quoted part, in which two
\* double quotes are one and a single one closes the part.
RECURSIVE CsvScan(_, _, _, _, _)
CsvScan(t, inQuotes, field, rec, recs) ==
    IF t = <<>>
    THEN IF field # <<>> \/ rec # <<>> \/ inQuotes THEN Append(recs, Append(rec, field)) ELSE recs
    ELSE IF inQuotes
    THEN IF Head(t) = "\""
         THEN IF Len(t) >= 2 /\ t[2] = "\""
              THEN CsvScan(SubSeq(t, 3, Len(t)), TRUE, Append(field, "\""), rec, recs)
              ELSE CsvScan(Tail(t), FALSE, field, rec, recs)
         ELSE CsvScan(Tail(t), TRUE, Append(field, Head(t)), rec, recs)
    ELSE IF Head(t) = "\"" THEN CsvScan(Tail(t), TRUE, field, rec, recs)
    ELSE IF Head(t) = "," THEN CsvScan(Tail(t), FALSE, <<>>, Append(rec, field), recs)
    ELSE IF Head(t) = "\n" THEN CsvScan(Tail(t), FALSE, <<>>, <<>>, Append(recs, Append(rec, field)))
    ELSE CsvScan(Tail(t), FALSE, Append(field, Head(t)), rec, recs)

ParseCsv(text) == CsvScan(text, FALSE, <<>>, <<>>, <<>>)

\* The header as a record.
CsvHeaderRecord ==
    << <<"t", "i", "m", "e", "s", "t", "a", "m", "p">>, <<"u", "r", "l">>,
       <<"n", "a", "m", "e">>, <<"p", "r", "i", "c", "e">> >>

IsPrefix(s, t) == Len(s) <= Len(t) /\ SubSeq(t, 1, Len(s)) = s

\* The text of a file, the empty text for a file that does not exist.
TextOf(file) == IF file = Null THEN <<>> ELSE file[1]

\* C13: after appendCsv(row) has returned, what it added to the file, read
\* back as quoted CSV, is one record with the fields of row, as many and with
\* the same characters (commas, double quotes and line breaks included); the
\* file reads as the records it held before followed by that record, with the
\* header record in front exactly when the file did not exist; and what the
\* file held before is still its beginning, whether the call returned or threw.
C13_CsvRoundTrip ==
    /\ IsPrefix(TextOf(csvBefore), TextOf(csvText))
    /\ pc = "c_threw" =>
          ParseCsv(TextOf(csvText)) \in
              {ParseCsv(TextOf(csvBefore)), ParseCsv(TextOf(csvBefore)) \o <<CsvHeaderRecord>>}
    /\ (pc = "c_threw" /\ csvBefore # Null) => csvText = csvBefore
    /\ pc = "c_returned" =>
          LET old == TextOf(csvBefore)
              new == TextOf(csvText)
              kept == IF csvBefore = Null THEN Len(CsvHeaderLine) ELSE Len(old)
              added == SubSeq(new, kept + 1, Len(new))
          IN /\ csvRow # Null
             /\ ParseCsv(added) = <<csvRow[1]>>
             /\ Len(ParseCsv(added)[1]) = Len(csvRow[1])
             /\ ParseCsv(new) =
                   (IF csvBefore = Null THEN <<CsvHeaderRecord>> ELSE ParseCsv(old))
                       \o <<csvRow[1]>>

\* C13 witness: a row of a double quote and a comma has been appended to a
\* file that held the header and a row with a comma, a double quote and a line
\* break; the file reads as three records.
C13_Witness ==
    /\ pc = "c_returned"
    /\ csvBefore = appendCsvText(Null, CsvEarlierRow)
    /\ csvRow = Some(<< <<"\"">>, <<",">> >>)
    /\ Len(ParseCsv(TextOf(csvText))) = 3

====
